---- MODULE Spec2Model ----
(***************************************************************************)
(* Model of the respiratory_sounds package: the disk cache of the two      *)
(* tables (__init__.py), the filesystem helpers and the diagnosis codec    *)
(* (_tools.py), the file-name parser (_recordings.py) and the patients     *)
(* loader (_patients.py).                                                  *)
(*                                                                         *)
(* Six specifications share  the variables; each one moves its own group   *)
(* and leaves the others at their idle values:                             *)
(*   SpecCache    load_data_frame_with_cache and os.remove, one caller     *)
(*   SpecRace     load_data_frame_with_cache, concurrent callers, one key  *)
(*   SpecLife     module initialisation, the two empty_cache_* functions   *)
(*   SpecCodec    convert_diagnosis_class_to_name / _name_to_class         *)
(*   SpecParser   _extract_meta_info_from_file_name                        *)
(*   SpecPatients load_patients                                            *)
(***************************************************************************)
EXTENDS Integers, Sequences, FiniteSets, TLC

VARIABLES
    fs,                \* the filesystem: path -> node
    last,              \* the last call made: operation, error raised, value returned
    ckey,              \* SpecCache, SpecRace: the cache_path under test
    calls,             \* SpecCache, SpecRace: number of data_frame_loader() invocations
    stored,            \* SpecCache: the table pickled by the latest cache miss
    running,           \* SpecLife: the package is imported in a live process
    mem,               \* SpecLife: the module globals _recordings and _patients
    loads,             \* SpecLife: invocations of each table's loader
    pc,                \* SpecRace: each caller's position in load_data_frame_with_cache
    pv,                \* SpecRace: each caller's recording_data (the loader's result)
    writes,            \* SpecRace: the callers in the order their pickle write landed
    c2n,               \* SpecCodec: the last convert_diagnosis_class_to_name call
    n2c,               \* SpecCodec: the last convert_diagnosis_name_to_class call
    file_name,         \* SpecParser: the argument, a sequence of characters
    meta,              \* SpecParser: the outcome of _extract_meta_info_from_file_name
    demographic_info,  \* SpecPatients: the lines of demographic_info.txt
    patient_diagnosis, \* SpecPatients: the rows of patient_diagnosis.csv
    patients           \* SpecPatients: the outcome of load_patients

vars == <<fs, last, ckey, calls, stored, running, mem, loads, pc, pv, writes,
          c2n, n2c, file_name, meta, demographic_info, patient_diagnosis, patients>>

(***************************************************************************)
(* Bounds.                                                                 *)
(***************************************************************************)
MaxCalls == 3       \* loader invocations explored per run
NumProcs == 2       \* concurrent callers in SpecRace
MaxLabel == 10      \* class labels explored: -MaxLabel .. MaxLabel
MaxFields == 6      \* underscore-delimited fields in a generated file name
MaxRows == 2        \* lines per input file in SpecPatients

Tables == {"t1", "t2"}          \* the tables a loader may return
Truncated == "truncated"        \* content of a file opened "wb" and not yet written
NoError == "none"

(***************************************************************************)
(* Filesystem.  A path is the sequence of its components, relative to the  *)
(* working directory; <<>> is the empty string ''.                         *)
(***************************************************************************)
TempDir == <<"temp">>
RecKey == <<"temp", "_all_recording_data.pkl">>
PatKey == <<"temp", "_all_patient_data.pkl">>
CacheKeys == {<<"k.pkl">>, <<"a", "k.pkl">>, <<"a", "b", "k.pkl">>}
DirPaths == {TempDir, <<"a">>, <<"a", "b">>}
FilePaths == CacheKeys \cup {RecKey, PatKey}
Paths == DirPaths \cup FilePaths

AbsentNode == [kind |-> "absent", data |-> ""]
DirNode == [kind |-> "dir", data |-> ""]
FileNode(d) == [kind |-> "file", data |-> d]

EmptyDisk == [p \in Paths |-> AbsentNode]

Ok(f) == [fs |-> f, err |-> NoError]
Fail(f, e) == [fs |-> f, err |-> e]

os_path_dirname(p) == SubSeq(p, 1, Len(p) - 1)

os_path_isfile(f, p) == p \in DOMAIN f /\ f[p].kind = "file"

os_path_isdir(f, p) == p \in DOMAIN f /\ f[p].kind = "dir"

\* os.path.exists('') is False; the working directory itself is not a path here
os_path_exists(f, p) == p \in DOMAIN f /\ f[p].kind # "absent"

\* the directory a new entry p is made in exists (the working directory always does)
ParentIsDir(f, p) == Len(p) = 1 \/ os_path_isdir(f, os_path_dirname(p))

\* os.mkdir: one level only
os_mkdir(f, p) ==
    IF p = <<>> THEN Fail(f, "FileNotFoundError")
    ELSE IF os_path_exists(f, p) THEN Fail(f, "FileExistsError")
    ELSE IF ~ParentIsDir(f, p) THEN Fail(f, "FileNotFoundError")
    ELSE Ok([f EXCEPT ![p] = DirNode])

create_path_if_nonexistent(f, p) ==
    IF ~os_path_exists(f, p) THEN os_mkdir(f, p) ELSE Ok(f)

\* open(path, "wb"): creates or truncates the file
open_wb(f, p) ==
    IF ~ParentIsDir(f, p) THEN Fail(f, "FileNotFoundError")
    ELSE Ok([f EXCEPT ![p] = FileNode(Truncated)])

\* faulty variant of write_pickle_bytes: a file that already holds a table is kept
WriteKeepingFirst(f, p, v) ==
    IF f[p].kind = "file" /\ f[p].data # Truncated THEN f ELSE [f EXCEPT ![p] = FileNode(v)]

\* f.write(pickle.dumps(obj)): from offset 0; unpickling stops at the first
\* STOP opcode, so what the file then holds is v
write_pickle_bytes(f, p, v) == [f EXCEPT ![p] = FileNode(v)]

pd_to_pickle(f, p, v) ==
    LET o == open_wb(f, p)
    IN  IF o.err # NoError THEN o ELSE Ok(write_pickle_bytes(o.fs, p, v))

\* pd.read_pickle of an existing file
pd_read_pickle(f, p) ==
    IF f[p].data = Truncated THEN [err |-> "EOFError", value |-> ""]
    ELSE [err |-> NoError, value |-> f[p].data]

\* faulty variant of os_remove: a missing file is passed over in silence
RemoveQuietly(f, p) ==
    IF os_path_isfile(f, p) THEN Ok([f EXCEPT ![p] = AbsentNode]) ELSE Ok(f)

os_remove(f, p) ==
    IF os_path_isfile(f, p) THEN Ok([f EXCEPT ![p] = AbsentNode])
    ELSE Fail(f, "FileNotFoundError")

(***************************************************************************)
(* load_data_frame_with_cache(data_frame_loader, cache_path), run to its   *)
(* end by one caller.  v is what data_frame_loader() returns if invoked.   *)
(* called: the loader was invoked.                                         *)
(***************************************************************************)
load_data_frame_with_cache(f, cache_path, v) ==
    LET cache_path_head == os_path_dirname(cache_path)
    IN  IF os_path_isfile(f, cache_path)
        THEN LET r == pd_read_pickle(f, cache_path)
             IN  [fs |-> f, err |-> r.err, value |-> r.value, called |-> FALSE]
        ELSE LET c == create_path_if_nonexistent(f, cache_path_head)
             IN  IF c.err # NoError
                 THEN [fs |-> c.fs, err |-> c.err, value |-> "", called |-> TRUE]
                 ELSE LET w == pd_to_pickle(c.fs, cache_path, v)
                      IN  IF w.err # NoError
                          THEN [fs |-> w.fs, err |-> w.err, value |-> "", called |-> TRUE]
                          ELSE [fs |-> w.fs, err |-> NoError, value |-> v, called |-> TRUE]

\* the record of a call: what was called, what it raised and returned, and the same
\* of the call before it
NoCall == [op |-> "none", err |-> NoError, value |-> "", prev |-> "none", prevErr |-> NoError]
Call(o, e, v) == [op |-> o, err |-> e, value |-> v, prev |-> last.op, prevErr |-> last.err]

(***************************************************************************)
(* Idle values of each group of variables.                                 *)
(***************************************************************************)
cacheVars == <<ckey, calls, stored>>
lifeVars == <<running, mem, loads>>
raceVars == <<pc, pv, writes>>
codecVars == <<c2n, n2c>>
parserVars == <<file_name, meta>>
patientVars == <<demographic_info, patient_diagnosis, patients>>

IdleCache == ckey = <<>> /\ calls = 0 /\ stored = ""
IdleLife == running = FALSE /\ mem = [rec |-> "", pat |-> ""] /\ loads = [rec |-> 0, pat |-> 0]
IdleRace == pc = <<>> /\ pv = <<>> /\ writes = <<>>
IdleCodec == c2n = [called |-> FALSE] /\ n2c = [called |-> FALSE]
IdleParser == file_name = <<>> /\ meta = [called |-> FALSE]
IdlePatients == demographic_info = <<>> /\ patient_diagnosis = <<>> /\ patients = [called |-> FALSE]

(***************************************************************************)
(* SpecCache: one caller, one cache_path, any state of its ancestors.      *)
(***************************************************************************)
\* the directory trees a fresh checkout can have: each directory has its parent
DirStates ==
    {d \in SUBSET DirPaths : \A p \in d : Len(p) = 1 \/ os_path_dirname(p) \in d}

DiskWith(d) == [p \in Paths |-> IF p \in d THEN DirNode ELSE AbsentNode]

InitCache ==
    /\ ckey \in CacheKeys
    /\ \E d \in DirStates : TempDir \notin d /\ fs = DiskWith(d)
    /\ calls = 0 /\ stored = "" /\ last = NoCall
    /\ IdleLife /\ IdleRace /\ IdleCodec /\ IdleParser /\ IdlePatients

Load(v) ==
    LET r == load_data_frame_with_cache(fs, ckey, v)
    IN  /\ r.called => calls < MaxCalls
        /\ fs' = r.fs
        /\ calls' = IF r.called THEN calls + 1 ELSE calls
        /\ stored' = IF r.called /\ r.err = NoError THEN v ELSE stored
        /\ last' = Call("load", r.err, r.value)
        /\ UNCHANGED <<ckey, lifeVars, raceVars, codecVars, parserVars, patientVars>>

Evict ==
    LET r == os_remove(fs, ckey)
    IN  /\ fs' = r.fs
        /\ last' = Call("remove", r.err, "")
        /\ UNCHANGED <<ckey, calls, stored, lifeVars, raceVars, codecVars, parserVars,
                       patientVars>>

NextCache == (\E v \in Tables : Load(v)) \/ Evict

SpecCache == InitCache /\ [][NextCache]_vars

(***************************************************************************)
(* Claims on SpecCache.                                                    *)
(***************************************************************************)
LoadMissStep == last'.op = "load" /\ ~os_path_isfile(fs, ckey)
LoadHitStep == last'.op = "load" /\ os_path_isfile(fs, ckey)

\* the directories above a path, nearest last
Ancestors(p) == {SubSeq(p, 1, n) : n \in 1..(Len(p) - 1)}

\* C1: for any cache key whose file is absent, a call invokes the loader exactly
\* once and leaves a file at the key holding the loader's result; a call made while
\* the file exists returns the data stored by that miss and does not invoke the
\* loader; once the file is removed the next call is a miss again and invokes the
\* loader.
C1_CacheContract ==
    [][ /\ LoadMissStep =>
             /\ calls' = calls + 1
             /\ os_path_isfile(fs', ckey)
             /\ fs'[ckey].data = last'.value
             /\ last'.err = NoError
        /\ LoadHitStep =>
             /\ calls' = calls
             /\ last'.err = NoError
             /\ last'.value = stored
             /\ fs' = fs ]_vars

\* the contract of C1 on the calls whose parent directory exists or can be made by
\* one mkdir: there it holds
CacheContractUnderCreatableParent ==
    [][ (Len(ckey) > 1 /\ ParentIsDir(fs, os_path_dirname(ckey))) =>
          /\ LoadMissStep =>
                /\ calls' = calls + 1
                /\ fs'[ckey] = FileNode(last'.value)
                /\ last'.err = NoError
          /\ LoadHitStep =>
                /\ calls' = calls
                /\ last'.err = NoError
                /\ last'.value = stored
                /\ fs' = fs ]_vars

\* C2: on a cache miss every parent directory of the key exists afterwards, whatever
\* the number of missing ancestors, the result is pickled at the key and returned.
C2_MissCreatesParents ==
    [][ (LoadMissStep /\ Ancestors(ckey) # {}) =>
          /\ \A d \in Ancestors(ckey) : os_path_isdir(fs', d)
          /\ fs'[ckey] = FileNode(last'.value)
          /\ last'.value \in Tables ]_vars

(***************************************************************************)
(* SpecLife: the package across process runs.  Importing it evaluates      *)
(* __init__.py lines 82-86; the two empty_cache_* functions are callable   *)
(* while it is imported; the process may end and a new one import again.   *)
(* The cache files outlive the process, the module globals do not.         *)
(***************************************************************************)
\* get_temporary_dir(): <package>/temp, made if missing; the package directory exists
get_temporary_dir(f) == create_path_if_nonexistent(f, TempDir)

cache_path_recordings == TempDir \o <<"_all_recording_data.pkl">>
cache_path_patients == TempDir \o <<"_all_patient_data.pkl">>

\* faulty variant of empty_cache_recordings: the patients file is removed as well
EmptyBothCaches(f) ==
    LET r == os_remove(f, cache_path_recordings)
    IN  Fail(os_remove(r.fs, cache_path_patients).fs, r.err)

empty_cache_recordings(f) == os_remove(f, cache_path_recordings)

empty_cache_patients(f) == os_remove(f, cache_path_patients)

\* module initialisation: vr, vp are what the two loaders return if invoked
module_init(f, vr, vp) ==
    LET t == get_temporary_dir(f)
        r == load_data_frame_with_cache(t.fs, cache_path_recordings, vr)
        q == load_data_frame_with_cache(r.fs, cache_path_patients, vp)
    IN  IF t.err # NoError
        THEN [fs |-> t.fs, err |-> t.err, rec |-> "", pat |-> "",
              recCalled |-> FALSE, patCalled |-> FALSE]
        ELSE IF r.err # NoError
        THEN [fs |-> r.fs, err |-> r.err, rec |-> "", pat |-> "",
              recCalled |-> r.called, patCalled |-> FALSE]
        ELSE [fs |-> q.fs, err |-> q.err, rec |-> r.value, pat |-> q.value,
              recCalled |-> r.called, patCalled |-> q.called]

NodeStates == {AbsentNode} \cup {FileNode(t) : t \in Tables}

\* what earlier runs can have left: no temp directory, or one holding either file
InitLife ==
    /\ \/ fs = EmptyDisk
       \/ \E r \in NodeStates, q \in NodeStates :
             fs = [EmptyDisk EXCEPT ![TempDir] = DirNode, ![RecKey] = r, ![PatKey] = q]
    /\ last = NoCall
    /\ IdleLife /\ IdleCache /\ IdleRace /\ IdleCodec /\ IdleParser /\ IdlePatients

ModuleInit(vr, vp) ==
    LET r == module_init(fs, vr, vp)
    IN  /\ ~running
        /\ r.recCalled => loads.rec < MaxCalls
        /\ r.patCalled => loads.pat < MaxCalls
        /\ fs' = r.fs
        /\ running' = (r.err = NoError)
        /\ mem' = IF r.err = NoError THEN [rec |-> r.rec, pat |-> r.pat] ELSE mem
        /\ loads' = [rec |-> loads.rec + (IF r.recCalled THEN 1 ELSE 0),
                     pat |-> loads.pat + (IF r.patCalled THEN 1 ELSE 0)]
        /\ last' = Call("import", r.err, "")
        /\ UNCHANGED <<cacheVars, raceVars, codecVars, parserVars, patientVars>>

EmptyCacheRecordings ==
    LET r == empty_cache_recordings(fs)
    IN  /\ running
        /\ fs' = r.fs
        /\ last' = Call("empty_cache_recordings", r.err, "")
        /\ UNCHANGED <<lifeVars, cacheVars, raceVars, codecVars, parserVars, patientVars>>

EmptyCachePatients ==
    LET r == empty_cache_patients(fs)
    IN  /\ running
        /\ fs' = r.fs
        /\ last' = Call("empty_cache_patients", r.err, "")
        /\ UNCHANGED <<lifeVars, cacheVars, raceVars, codecVars, parserVars, patientVars>>

ProcessExit ==
    /\ running
    /\ running' = FALSE
    /\ mem' = [rec |-> "", pat |-> ""]
    /\ last' = Call("exit", NoError, "")
    /\ UNCHANGED <<fs, loads, cacheVars, raceVars, codecVars, parserVars, patientVars>>

NextLife ==
    \/ \E vr \in Tables, vp \in Tables : ModuleInit(vr, vp)
    \/ EmptyCacheRecordings
    \/ EmptyCachePatients
    \/ ProcessExit

SpecLife == InitLife /\ [][NextLife]_vars

(***************************************************************************)
(* Claims on SpecLife.                                                     *)
(***************************************************************************)
EvictedKey(op) == IF op = "empty_cache_recordings" THEN RecKey ELSE PatKey
EvictOps == {"empty_cache_recordings", "empty_cache_patients"}

\* C3: an eviction deletes the file at its cache key when that file exists, and
\* otherwise raises FileNotFoundError (NotFound) and leaves the filesystem as it
\* was; so does a second eviction made directly after a first.
C3_EvictDeletesOrNotFound ==
    [][ last'.op \in EvictOps =>
          IF os_path_isfile(fs, EvictedKey(last'.op))
          THEN /\ fs' = [fs EXCEPT ![EvictedKey(last'.op)] = AbsentNode]
               /\ last'.err = NoError
          ELSE /\ fs' = fs
               /\ last'.err = "FileNotFoundError" ]_vars

\* a second eviction of the recordings cache directly after a successful first
C3_Witness ==
    /\ last.op = "empty_cache_recordings" /\ last.err = "FileNotFoundError"
    /\ last.prev = "empty_cache_recordings" /\ last.prevErr = NoError
    /\ ~os_path_isfile(fs, RecKey)

OtherKey(op) == IF op = "empty_cache_recordings" THEN PatKey ELSE RecKey

\* C10: the two tables have independent cache files.  An eviction removes only its
\* own file: the other file, both in-memory tables and the loaders' invocation
\* counts are unchanged.  A loader runs only during module initialisation, and then
\* exactly for the tables whose file is missing; a table whose file is present is
\* read from it and its file is left as it was.
C10_IndependentCaches ==
    [][ /\ last'.op \in EvictOps =>
             /\ ~os_path_isfile(fs', EvictedKey(last'.op))
             /\ fs'[OtherKey(last'.op)] = fs[OtherKey(last'.op)]
             /\ mem' = mem
             /\ loads' = loads
        /\ loads' # loads => last'.op = "import"
        /\ last'.op = "import" =>
             /\ loads'.rec = loads.rec + (IF os_path_isfile(fs, RecKey) THEN 0 ELSE 1)
             /\ loads'.pat = loads.pat + (IF os_path_isfile(fs, PatKey) THEN 0 ELSE 1)
             /\ os_path_isfile(fs, RecKey) =>
                    mem'.rec = fs[RecKey].data /\ fs'[RecKey] = fs[RecKey]
             /\ os_path_isfile(fs, PatKey) =>
                    mem'.pat = fs[PatKey].data /\ fs'[PatKey] = fs[PatKey] ]_vars

\* a process that started after the recordings cache alone was evicted: the
\* recordings were computed a second time, the patients only once and read back
C10_Witness ==
    /\ running /\ last.op = "import"
    /\ loads.rec = 2 /\ loads.pat = 1
    /\ mem.pat = fs[PatKey].data

(***************************************************************************)
(* SpecRace: NumProcs callers run load_data_frame_with_cache on one key    *)
(* with no lock.  Each system call of the function is one step: the        *)
(* isfile test (line 52), the read (53), the loader (55), the exists test  *)
(* and the mkdir of create_path_if_nonexistent (56), and the open and the  *)
(* write of pd.to_pickle (57).                                             *)
(***************************************************************************)
Procs == 1..NumProcs

Finished(p) == pc[p] \in {"done", "raised"}

InitRace ==
    /\ ckey \in CacheKeys
    /\ \E d \in DirStates : TempDir \notin d /\ fs = DiskWith(d)
    /\ calls = 0 /\ stored = "" /\ last = NoCall
    /\ pc = [p \in Procs |-> "isfile"]
    /\ pv = [p \in Procs |-> ""]
    /\ writes = <<>>
    /\ IdleLife /\ IdleCodec /\ IdleParser /\ IdlePatients

raceFrame == <<ckey, stored, last, lifeVars, codecVars, parserVars, patientVars>>

IsFileTest(p) ==
    /\ pc[p] = "isfile"
    /\ pc' = [pc EXCEPT ![p] = IF os_path_isfile(fs, ckey) THEN "read" ELSE "loader"]
    /\ UNCHANGED <<fs, calls, pv, writes, raceFrame>>

ReadPickle(p) ==
    LET r == pd_read_pickle(fs, ckey)
    IN  /\ pc[p] = "read"
        /\ pv' = [pv EXCEPT ![p] = r.value]
        /\ pc' = [pc EXCEPT ![p] = IF r.err = NoError THEN "done" ELSE "raised"]
        /\ UNCHANGED <<fs, calls, writes, raceFrame>>

CallLoader(p, v) ==
    /\ pc[p] = "loader"
    /\ pv' = [pv EXCEPT ![p] = v]
    /\ calls' = calls + 1
    /\ pc' = [pc EXCEPT ![p] = "exists"]
    /\ UNCHANGED <<fs, writes, raceFrame>>

ExistsTest(p) ==
    /\ pc[p] = "exists"
    /\ pc' = [pc EXCEPT ![p] =
                 IF os_path_exists(fs, os_path_dirname(ckey)) THEN "open" ELSE "mkdir"]
    /\ UNCHANGED <<fs, calls, pv, writes, raceFrame>>

Mkdir(p) ==
    LET r == os_mkdir(fs, os_path_dirname(ckey))
    IN  /\ pc[p] = "mkdir"
        /\ fs' = r.fs
        /\ pc' = [pc EXCEPT ![p] = IF r.err = NoError THEN "open" ELSE "raised"]
        /\ UNCHANGED <<calls, pv, writes, raceFrame>>

OpenForWrite(p) ==
    LET r == open_wb(fs, ckey)
    IN  /\ pc[p] = "open"
        /\ fs' = r.fs
        /\ pc' = [pc EXCEPT ![p] = IF r.err = NoError THEN "write" ELSE "raised"]
        /\ UNCHANGED <<calls, pv, writes, raceFrame>>

WritePickle(p) ==
    /\ pc[p] = "write"
    /\ fs' = write_pickle_bytes(fs, ckey, pv[p])
    /\ writes' = Append(writes, p)
    /\ pc' = [pc EXCEPT ![p] = "done"]
    /\ UNCHANGED <<calls, pv, raceFrame>>

NextRace ==
    \E p \in Procs :
        \/ IsFileTest(p)
        \/ ReadPickle(p)
        \/ \E v \in Tables : CallLoader(p, v)
        \/ ExistsTest(p)
        \/ Mkdir(p)
        \/ OpenForWrite(p)
        \/ WritePickle(p)

SpecRace == InitRace /\ [][NextRace]_vars

(***************************************************************************)
(* Claims on SpecRace.                                                     *)
(***************************************************************************)
\* C4: callers racing on one absent key may each find the file missing and each
\* invoke the loader; once all of them have finished, the file at the key holds
\* the table of the caller whose write landed last.
C4_LastWriterWins ==
    ((\A p \in Procs : Finished(p)) /\ writes # <<>>) =>
        fs[ckey] = FileNode(pv[writes[Len(writes)]])

\* two callers both invoked the loader, with different results, and both wrote
C4_Witness ==
    /\ \A p \in Procs : Finished(p)
    /\ calls >= 2
    /\ Len(writes) >= 2
    /\ pv[writes[1]] # pv[writes[2]]
    /\ fs[ckey].data = pv[writes[Len(writes)]]

(***************************************************************************)
(* Diagnosis codec (_tools.py).  A Python list is a sequence; its indices  *)
(* start at 0 and a negative index counts from the end.                    *)
(***************************************************************************)
diagnosis_class_name_mapping ==
    <<"Healthy", "Asthma", "Bronchiectasis", "Bronchiolitis", "COPD", "LRTI",
      "Pneumonia", "URTI">>

\* L[i] of Python
list_getitem(L, i) ==
    IF 0 <= i /\ i < Len(L) THEN [err |-> NoError, item |-> L[i + 1]]
    ELSE IF -Len(L) <= i /\ i < 0 THEN [err |-> NoError, item |-> L[Len(L) + i + 1]]
    ELSE [err |-> "IndexError", item |-> ""]

FirstPosition(L, x) == CHOOSE i \in 1..Len(L) : L[i] = x /\ \A j \in 1..(i - 1) : L[j] # x

\* faulty variant of list_index: positions counted from 1
ListIndexOneBased(L, x) ==
    IF \E i \in 1..Len(L) : L[i] = x
    THEN [err |-> NoError, index |-> FirstPosition(L, x)]
    ELSE [err |-> "ValueError", index |-> -1]

\* L.index(x) of Python: the first position of x, ValueError when x is not in L
list_index(L, x) ==
    IF \E i \in 1..Len(L) : L[i] = x
    THEN [err |-> NoError, index |-> FirstPosition(L, x) - 1]
    ELSE [err |-> "ValueError", index |-> -1]

convert_diagnosis_class_to_name(label) == list_getitem(diagnosis_class_name_mapping, label)

convert_diagnosis_name_to_class(diagnosis) == list_index(diagnosis_class_name_mapping, diagnosis)

Labels == (-MaxLabel)..MaxLabel

\* the names of the list and some that are not in it
NameInputs ==
    {diagnosis_class_name_mapping[i] : i \in 1..Len(diagnosis_class_name_mapping)}
        \cup {"Flu", "healthy", ""}

InitCodec ==
    /\ c2n = [called |-> FALSE] /\ n2c = [called |-> FALSE]
    /\ fs = EmptyDisk /\ last = NoCall
    /\ IdleCache /\ IdleLife /\ IdleRace /\ IdleParser /\ IdlePatients

codecFrame == <<fs, last, cacheVars, lifeVars, raceVars, parserVars, patientVars>>

\* convert_diagnosis_class_to_name(label), and the name converted back
ClassToName(label) ==
    LET r == convert_diagnosis_class_to_name(label)
        b == convert_diagnosis_name_to_class(r.item)
    IN  /\ c2n' = [called |-> TRUE, label |-> label, err |-> r.err, name |-> r.item,
                   back |-> IF r.err = NoError THEN b ELSE [err |-> r.err, index |-> -1]]
        /\ UNCHANGED <<n2c, codecFrame>>

\* convert_diagnosis_name_to_class(diagnosis), and the class converted back
NameToClass(diagnosis) ==
    LET r == convert_diagnosis_name_to_class(diagnosis)
        b == convert_diagnosis_class_to_name(r.index)
    IN  /\ n2c' = [called |-> TRUE, name |-> diagnosis, err |-> r.err, class |-> r.index,
                   back |-> IF r.err = NoError THEN b ELSE [err |-> r.err, item |-> ""]]
        /\ UNCHANGED <<c2n, codecFrame>>

NextCodec ==
    \/ \E label \in Labels : ClassToName(label)
    \/ \E diagnosis \in NameInputs : NameToClass(diagnosis)

SpecCodec == InitCodec /\ [][NextCodec]_vars

(***************************************************************************)
(* Claims on SpecCodec.                                                    *)
(***************************************************************************)
ValidClasses == 0..7
KnownNames ==
    {"Healthy", "Asthma", "Bronchiectasis", "Bronchiolitis", "COPD", "LRTI",
     "Pneumonia", "URTI"}

\* C5: convert_diagnosis_class_to_name raises IndexError for every integer label
\* outside [0, 8), the negative ones included, and returns a name only for the
\* labels in [0, 8).
C5_OutOfRangeRaises ==
    c2n.called =>
        IF c2n.label \in ValidClasses
        THEN c2n.err = NoError /\ c2n.name \in KnownNames
        ELSE c2n.err = "IndexError"

\* C6: the codec is a bijection between [0, 8) and the 8 names: a class in [0, 8)
\* converts to a known name that converts back to the class, a known name converts
\* to a class in [0, 8) that converts back to the name, and a name outside the
\* list raises ValueError (NotFound).
C6_CodecBijection ==
    /\ Cardinality(KnownNames) = Cardinality(ValidClasses)
    /\ (c2n.called /\ c2n.label \in ValidClasses) =>
          /\ c2n.err = NoError
          /\ c2n.name \in KnownNames
          /\ c2n.back = [err |-> NoError, index |-> c2n.label]
    /\ (n2c.called /\ n2c.name \in KnownNames) =>
          /\ n2c.err = NoError
          /\ n2c.class \in ValidClasses
          /\ n2c.back = [err |-> NoError, item |-> n2c.name]
    /\ (n2c.called /\ n2c.name \notin KnownNames) => n2c.err = "ValueError"

\* the last class went to its name and back, and the first name to its class and back
C6_Witness ==
    /\ c2n.called /\ c2n.label = 7 /\ c2n.name = "URTI" /\ c2n.back.index = 7
    /\ n2c.called /\ n2c.name = "Healthy" /\ n2c.class = 0 /\ n2c.back.item = "Healthy"

(***************************************************************************)
(* File-name parser (_recordings.py).  A string is the sequence of its     *)
(* characters.                                                             *)
(***************************************************************************)
Underscore == "_"

HasSep(s) == \E i \in 1..Len(s) : s[i] = Underscore

FirstSep(s) == CHOOSE i \in 1..Len(s) : s[i] = Underscore /\ \A j \in 1..(i - 1) : s[j] # Underscore

RECURSIVE str_split(_)
\* s.split('_'): the fields between the underscores, empty ones kept
str_split(s) ==
    IF ~HasSep(s) THEN <<s>>
    ELSE <<SubSeq(s, 1, FirstSep(s) - 1)>> \o str_split(SubSeq(s, FirstSep(s) + 1, Len(s)))

DigitValue ==
    [c \in {"0", "1", "2", "3", "4", "5", "6", "7", "8", "9"} |->
        CASE c = "0" -> 0 [] c = "1" -> 1 [] c = "2" -> 2 [] c = "3" -> 3 [] c = "4" -> 4
          [] c = "5" -> 5 [] c = "6" -> 6 [] c = "7" -> 7 [] c = "8" -> 8 [] c = "9" -> 9]

RECURSIVE DecimalValue(_)
DecimalValue(s) ==
    IF s = <<>> THEN 0
    ELSE 10 * DecimalValue(SubSeq(s, 1, Len(s) - 1)) + DigitValue[s[Len(s)]]

\* int(s) of Python on the strings explored here (no sign, blank or digit separator)
py_int(s) ==
    IF s # <<>> /\ \A i \in 1..Len(s) : s[i] \in DOMAIN DigitValue
    THEN [err |-> NoError, value |-> DecimalValue(s)]
    ELSE [err |-> "ValueError", value |-> 0]

Raised(e) == [called |-> TRUE, err |-> e]

_extract_meta_info_from_file_name(name) ==
    LET record_data_values == str_split(name)
    IN  IF Len(record_data_values) < 4
        THEN Raised("IndexError")                      \* line 190: record_data_values[3]
        ELSE IF Len(record_data_values) # 5
        THEN Raised("AssertionError")                  \* line 191
        ELSE LET n == py_int(record_data_values[1])
             IN  IF n.err # NoError
                 THEN Raised(n.err)                    \* line 192
                 ELSE [called |-> TRUE, err |-> NoError,
                       patient_number |-> n.value,
                       recording_index |-> record_data_values[2],
                       chest_location |-> record_data_values[3],
                       num_channels |-> IF record_data_values[4] = <<"s", "c">> THEN 1 ELSE 2,
                       recording_equipment |-> record_data_values[5]]

\* the fields file names are made of
FieldPool == {<<>>, <<"4", "2">>, <<"s", "c">>, <<"m", "c">>, <<"A", "l">>}

RECURSIVE Joined(_)
\* the fields joined with underscores
Joined(fields) ==
    IF Len(fields) = 1 THEN fields[1]
    ELSE fields[1] \o <<Underscore>> \o Joined(Tail(fields))

FileNames == {Joined(fields) : fields \in UNION {[1..n -> FieldPool] : n \in 1..MaxFields}}

InitParser ==
    /\ file_name \in FileNames
    /\ meta = [called |-> FALSE]
    /\ fs = EmptyDisk /\ last = NoCall
    /\ IdleCache /\ IdleLife /\ IdleRace /\ IdleCodec /\ IdlePatients

ExtractMetaInfo ==
    /\ ~meta.called
    /\ meta' = _extract_meta_info_from_file_name(file_name)
    /\ UNCHANGED <<file_name, fs, last, cacheVars, lifeVars, raceVars, codecVars, patientVars>>

NextParser == ExtractMetaInfo

SpecParser == InitParser /\ [][NextParser]_vars

(***************************************************************************)
(* Claims on SpecParser.                                                   *)
(***************************************************************************)
FieldsOf(name) == str_split(name)

\* C7: the 4th field must be exactly "sc" or "mc": "sc" gives num_channels 1, "mc"
\* gives 2, any other token makes the parse fail, so every record returned has its
\* num_channels from one of the two tokens.
C7_AcquisitionModeChecked ==
    (meta.called /\ Len(FieldsOf(file_name)) = 5) =>
        LET mode == FieldsOf(file_name)[4]
        IN  /\ mode \notin {<<"s", "c">>, <<"m", "c">>} => meta.err # NoError
            /\ meta.err = NoError =>
                 \/ mode = <<"s", "c">> /\ meta.num_channels = 1
                 \/ mode = <<"m", "c">> /\ meta.num_channels = 2

\* C8: a name whose split has a field count other than 5 (fewer than 4, exactly 4,
\* more than 5) is refused by the field-count check, the first validation step,
\* before any field is read; no record is returned.
C8_FieldCountCheckedFirst ==
    (meta.called /\ Len(FieldsOf(file_name)) # 5) => meta.err = "AssertionError"

(***************************************************************************)
(* Patients loader (_patients.py).  A line of demographic_info.txt is the  *)
(* sequence of its whitespace-separated tokens, the patient number a       *)
(* sequence of characters; a row of patient_diagnosis.csv is a patient     *)
(* number and a diagnosis name.                                            *)
(***************************************************************************)
Failed(e) == [err |-> e, rows |-> <<>>]

Patient(fields) ==
    [patient_number |-> fields[1], age |-> fields[2], sex |-> fields[3],
     adult_bmi |-> fields[4], child_weight |-> fields[5], child_height |-> fields[6]]

_load_demographic_information(lines) ==
    IF \E i \in 1..Len(lines) : Len(lines[i]) # 6
    THEN Failed("AssertionError")                       \* line 42
    ELSE IF lines = <<>>
    THEN Failed("KeyError")                             \* line 46: a frame with no column
    ELSE IF \E i \in 1..Len(lines) : py_int(lines[i][1]).err # NoError
    THEN Failed("ValueError")                           \* line 46: pd.to_numeric
    ELSE [err |-> NoError,
          rows |-> [i \in 1..Len(lines) |->
                      [Patient(lines[i]) EXCEPT !.patient_number = py_int(lines[i][1]).value]]]

_load_patient_diagnoses(csv) ==
    IF csv = <<>>
    THEN Failed("EmptyDataError")                       \* line 57: pd.read_csv
    ELSE IF \E i \in 1..Len(csv) : convert_diagnosis_name_to_class(csv[i].diagnosis).err # NoError
    THEN Failed("ValueError")                           \* line 60
    ELSE [err |-> NoError,
          rows |-> [i \in 1..Len(csv) |->
                      [patient_number |-> csv[i].patient_number,
                       diagnosis_class |-> convert_diagnosis_name_to_class(csv[i].diagnosis).index]]]

MergedRow(l, r) ==
    [patient_number |-> l.patient_number, diagnosis_class |-> l.diagnosis_class,
     age |-> r.age, sex |-> r.sex, adult_bmi |-> r.adult_bmi,
     child_weight |-> r.child_weight, child_height |-> r.child_height]

RECURSIVE RowsMatching(_, _)
\* one merged row per row of right with l's patient_number
RowsMatching(l, right) ==
    IF right = <<>> THEN <<>>
    ELSE (IF Head(right).patient_number = l.patient_number
          THEN <<MergedRow(l, Head(right))>> ELSE <<>>) \o RowsMatching(l, Tail(right))

RECURSIVE pd_merge(_, _)
\* pd.merge(left, right, on patient_number), how="inner": every pair of rows that
\* agree on patient_number
pd_merge(left, right) ==
    IF left = <<>> THEN <<>>
    ELSE RowsMatching(Head(left), right) \o pd_merge(Tail(left), right)

\* the result is a sequence of rows; patient_number is the index label of each
load_patients(lines, csv) ==
    LET patient_demographics == _load_demographic_information(lines)
        diagnoses == _load_patient_diagnoses(csv)
    IN  IF patient_demographics.err # NoError
        THEN [called |-> TRUE, err |-> patient_demographics.err, rows |-> <<>>]
        ELSE IF diagnoses.err # NoError
        THEN [called |-> TRUE, err |-> diagnoses.err, rows |-> <<>>]
        ELSE [called |-> TRUE, err |-> NoError,
              rows |-> pd_merge(diagnoses.rows, patient_demographics.rows)]

DemographicLines ==
    {<<<<"1", "0", "1">>, "3", "F", "NA", "19", "99">>,
     <<<<"1", "0", "1">>, "4", "F", "NA", "21", "104">>,
     <<<<"1", "0", "2">>, "0.75", "F", "NA", "9.8", "73">>,
     <<<<"1", "0", "3">>, "70", "F", "33", "NA">>}

DiagnosisRows ==
    [patient_number : {101, 102}, diagnosis : {"URTI", "Healthy", "Flu"}]

SeqsUpTo(S, n) == UNION {[1..k -> S] : k \in 0..n}

InitPatients ==
    /\ demographic_info \in SeqsUpTo(DemographicLines, MaxRows)
    /\ patient_diagnosis \in SeqsUpTo(DiagnosisRows, MaxRows)
    /\ patients = [called |-> FALSE]
    /\ fs = EmptyDisk /\ last = NoCall
    /\ IdleCache /\ IdleLife /\ IdleRace /\ IdleCodec /\ IdleParser

LoadPatients ==
    /\ ~patients.called
    /\ patients' = load_patients(demographic_info, patient_diagnosis)
    /\ UNCHANGED <<demographic_info, patient_diagnosis, fs, last, cacheVars, lifeVars,
                   raceVars, codecVars, parserVars>>

NextPatients == LoadPatients

SpecPatients == InitPatients /\ [][NextPatients]_vars

(***************************************************************************)
(* Claims on SpecPatients.                                                 *)
(***************************************************************************)
DemographicNumbers ==
    {py_int(demographic_info[i][1]).value : i \in 1..Len(demographic_info)}
DiagnosisNumbers ==
    {patient_diagnosis[i].patient_number : i \in 1..Len(patient_diagnosis)}
ResultNumbers == {patients.rows[i].patient_number : i \in 1..Len(patients.rows)}

\* the inner-join half of C9 alone: the result holds the patient numbers of both sources
InnerJoinKeys ==
    (patients.called /\ patients.err = NoError) =>
        ResultNumbers = DemographicNumbers \cap DiagnosisNumbers

\* C9: the patients table is the inner join of the two sources on patient_number:
\* a patient_number is in the result exactly when it is in both sources, and the
\* result, indexed by patient_number, holds each patient_number at most once.
C9_InnerJoinUniqueIndex ==
    (patients.called /\ patients.err = NoError) =>
        /\ ResultNumbers = DemographicNumbers \cap DiagnosisNumbers
        /\ \A i, j \in 1..Len(patients.rows) :
              patients.rows[i].patient_number = patients.rows[j].patient_number => i = j

====
